---- MODULE Spec2Model ----
(***************************************************************************)
(* A model of src/dleapp.py: argument validation, the artifact-paths and   *)
(* create-profile modes with the dialogue of create_profile, profile       *)
(* loading and the plugin dispatch loop (crunch_artifacts).  Paths are     *)
(* sequences of path components; a path that carries the Windows long-path *)
(* prefix has the prefix as its first component.  The plugin loader, the   *)
(* Seekers, the output-folder helper, the progress sink and the report     *)
(* generator are imported by dleapp.py and are modelled by their           *)
(* contracts.                                                              *)
(***************************************************************************)
EXTENDS Integers, Sequences, FiniteSets, TLC

VARIABLES
    pc,                 \* position of the run
    windows,            \* is_platform_windows()
    args,               \* argparse namespace
    available_plugins,  \* main: list(loader.plugins)
    selected_plugins,   \* main: plugins to dispatch
    profile,            \* main: result of json.load, NoProfile before
    profile_filename,   \* main: args.load_profile or None
    stdout,             \* what main printed / parser.error reported
    plugins,            \* crunch_artifacts parameter
    extracttype,        \* crunch_artifacts parameter
    input_path,         \* crunch_artifacts parameter
    report_folder_base, \* out_params.report_folder_base
    ratio,              \* crunch_artifacts parameter
    wrap_text,          \* crunch_artifacts parameter
    seeker,             \* the Seeker, NoSeeker before construction
    runlog,             \* messages given to logfunc
    log,                \* contents of ProcessedFilesLog.html
    log_state,          \* "unopened", "open" or "closed"
    idx,                \* number of plugins the for loop has taken
    pat,                \* number of patterns of the current plugin searched
    files_found,        \* files_found of the current plugin
    folders,            \* category folders present under report_folder_base
    invoked,            \* calls of plugin.method, in order
    outcome,            \* per loop position: how the iteration ended
    categories_searched,
    progress,           \* values given to GuiWindow.SetProgressBar
    report_calls,       \* calls of report.generate_report
    result,             \* what crunch_artifacts returned
    staged,             \* archive members the Seeker has copied to its temp folder
    available_parsers,  \* create_profile: sorted (category, name) pairs
    parsers_in_profile, \* create_profile: the dict, as (number, parser) pairs in insertion order
    user_input,         \* create_profile: the input the loop has just handled
    shown,              \* create_profile: what the loop printed for that input
    profile_file,       \* the file create_profile wrote, NoFile before
    path_list,          \* lines appended to path_list.txt
    second_run          \* a later run of main that loads profile_file

vars == <<pc, windows, args, available_plugins, selected_plugins, profile,
          profile_filename, stdout, plugins, extracttype, input_path,
          report_folder_base, ratio, wrap_text, seeker, runlog, log, log_state, idx,
          pat, files_found, folders, invoked, outcome, categories_searched,
          progress, report_calls, result, staged, available_parsers,
          parsers_in_profile, user_input, shown, profile_file, path_list,
          second_run>>

profile_vars == <<available_parsers, parsers_in_profile, user_input, shown,
                  profile_file, path_list, second_run>>

main_vars == <<windows, args, available_plugins, selected_plugins, profile,
               profile_filename, stdout>>

\* ------------------------------------------------------------------ bounds

\* longest plugin list handed out by the loader
MaxPlugins == 3

\* number of files the searched container can hold
NumFiles == 2

\* ------------------------------------------------------------ small helpers

None == <<>>

NoneT == "None"

Range(s) == {s[i] : i \in DOMAIN s}

RECURSIVE SetToSeq(_)
\* the members of a set of strings' indices, ascending
SetToSeq(S) ==
    IF S = {} THEN <<>>
    ELSE LET m == CHOOSE x \in S : \A y \in S : x <= y
         IN <<m>> \o SetToSeq(S \ {m})

RECURSIVE SelectIn(_, _)
SelectIn(s, S) ==
    IF s = <<>> THEN <<>>
    ELSE (IF Head(s) \in S THEN <<Head(s)>> ELSE <<>>) \o SelectIn(Tail(s), S)

\* ------------------------------------------------------------------- paths

LongPathPrefix == "\\\\?\\"

HasDrive(path) == Len(path) >= 1 /\ path[1] = "C:"

StartsWithPrefix(path) == Len(path) >= 1 /\ path[1] = LongPathPrefix

AddPrefix(path) == <<LongPathPrefix>> \o path

StripPrefix(path) == IF StartsWithPrefix(path) THEN Tail(path) ELSE path

Join(base, name) == Append(base, name)

InputDrive == <<"C:", "case", "in">>

InputShare == <<"share", "case", "in">>

OutputDir == <<"C:", "case", "out">>

MissingPath == <<"C:", "nowhere">>

ProfilePath == <<"C:", "case", "run.dlprofile">>

ExistingPaths == {InputDrive, InputShare, OutputDir, ProfilePath}

PathExists(path) == path \in ExistingPaths

\* ------------------------------------------- the loader's plugin descriptors

PluginIds == {1, 2, 3, 4}

PluginName(p) == CASE p = 1 -> "A" [] p = 2 -> "B" [] p = 3 -> "C" [] OTHER -> "D"

PluginModule(p) ==
    CASE p = 1 -> "modA" [] p = 2 -> "modB" [] p = 3 -> "modC" [] OTHER -> "modD"

PluginCategory(p) == IF p \in {2, 4} THEN "Device" ELSE "Flight"

\* plugin.search is a single string for plugin 1 and a tuple for the others
SearchIsSequence(p) == p # 1

PluginSearch(p) ==
    CASE p = 1 -> "*/f1.log"
      [] p = 2 -> <<"*/f1.log", "*.log">>
      [] p = 3 -> <<"*/f2.log">>
      [] OTHER -> <<"*.log", "*/f2.log">>

\* list(loader.plugins): an ordered collection without repeated plugins
Registries ==
    UNION {{s \in [1..n -> PluginIds] : \A i, j \in 1..n : s[i] = s[j] => i = j}
           : n \in 0..MaxPlugins}

\* --------------------------------------------------------- the container

FileNames == <<"f1.log", "f2.log", "f3.log", "f4.log">>

FileIds == 1..NumFiles

RegexMatches(regex, f) ==
    CASE regex = "*/f1.log" -> f = 1
      [] regex = "*/f2.log" -> f = 2
      [] regex = "*.log" -> TRUE
      [] OTHER -> FALSE

NoSeeker == [kind |-> "none", root |-> <<>>, members |-> {}]

\* the archive Seekers copy every member that matches to their temp folder,
\* once; the directory Seeker copies nothing
SeekerStage(sk, regex, held) ==
    IF sk.kind = "dir" THEN held
    ELSE held \cup {f \in sk.members : RegexMatches(regex, f)}

\* seeker.search(regex): the members matching the pattern, as paths below the
\* Seeker's root, in member order
SeekerSearch(sk, regex) ==
    LET hits == SetToSeq({f \in sk.members : RegexMatches(regex, f)})
    IN [i \in 1..Len(hits) |-> Join(sk.root, FileNames[hits[i]])]

\* ------------------------------------------------------ JSON profile files

JStr(s, chars) == [t |-> "str", s |-> s, chars |-> chars, n |-> 0, items |-> <<>>]

JNum(n) == [t |-> "num", s |-> "", chars |-> <<>>, n |-> n, items |-> <<>>]

JTrue == [t |-> "true", s |-> "", chars |-> <<>>, n |-> 1, items |-> <<>>]

JNull == [t |-> "null", s |-> "", chars |-> <<>>, n |-> 0, items |-> <<>>]

\* a key the object does not have
JAbsent == [t |-> "absent", s |-> "", chars |-> <<>>, n |-> 0, items |-> <<>>]

\* an array of strings (given by their text), numbers or nested arrays
JArr(items) == [t |-> "arr", s |-> "", chars |-> <<>>, n |-> 0, items |-> items]

JName(s) == [t |-> "str", s |-> s]

JNested == [t |-> "arr", s |-> ""]

JItemNum == [t |-> "num", s |-> ""]

NoProfile == [t |-> "none", leapp |-> JAbsent, format_version |-> JAbsent, plugins |-> JAbsent]

JInvalid == [t |-> "invalid", leapp |-> JAbsent, format_version |-> JAbsent, plugins |-> JAbsent]

JNotDict == [t |-> "list", leapp |-> JAbsent, format_version |-> JAbsent, plugins |-> JAbsent]

JDict(leapp, version, plugs) ==
    [t |-> "dict", leapp |-> leapp, format_version |-> version, plugins |-> plugs]

Dleapp == JStr("dleapp", <<"d", "l", "e", "a", "p", "p">>)

Ileapp == JStr("ileapp", <<"i", "l", "e", "a", "p", "p">>)

NameLists ==
    {<<>>, <<"A">>, <<"B", "A">>, <<"C", "Z">>, <<"Z">>, <<"A", "B", "C", "A">>}

WellFormedProfiles ==
    {JDict(Dleapp, JNum(1), JArr([i \in 1..Len(l) |-> JName(l[i])])) : l \in NameLists}

RejectedProfiles ==
    {JInvalid, JNotDict,
     JDict(Ileapp, JNum(1), JArr(<<JName("A")>>)),
     JDict(JAbsent, JNum(1), JArr(<<JName("A")>>)),
     JDict(Dleapp, JNum(2), JArr(<<JName("A")>>)),
     JDict(Dleapp, JStr("1", <<"1">>), JArr(<<JName("A")>>)),
     JDict(Dleapp, JAbsent, JArr(<<JName("A")>>))}

\* right tag and version, but "plugins" is not a sequence of strings
MisshapenProfiles ==
    {JDict(Dleapp, JNum(1), JAbsent),
     JDict(Dleapp, JNum(1), JNull),
     JDict(Dleapp, JNum(1), JNum(5)),
     JDict(Dleapp, JNum(1), JStr("AB", <<"A", "B">>)),
     JDict(Dleapp, JNum(1), JArr(<<JName("A"), JNested>>)),
     JDict(Dleapp, JNum(1), JArr(<<JName("A"), JItemNum>>)),
     JDict(Dleapp, JTrue, JArr(<<JName("B")>>))}

ProfileContents == WellFormedProfiles \cup RejectedProfiles \cup MisshapenProfiles

\* ----------------------------------------------------------- validate_args

BaseArgs ==
    [artifact_paths |-> FALSE, create_profile |-> None, input_path |-> InputDrive,
     output_path |-> OutputDir, t |-> "fs", load_profile |-> None, wrap_text |-> TRUE]

\* the command lines tried: a plain run and its variations
ArgsSet ==
    {[BaseArgs EXCEPT !.t = v] : v \in {"fs", "tar", "zip", NoneT}}
    \cup {[BaseArgs EXCEPT !.t = "gz", !.wrap_text = FALSE]}
    \cup {[BaseArgs EXCEPT !.input_path = v] : v \in {InputShare, MissingPath, None}}
    \cup {[BaseArgs EXCEPT !.output_path = v] : v \in {MissingPath, None}}
    \cup {[BaseArgs EXCEPT !.load_profile = v] : v \in {ProfilePath, MissingPath}}
    \cup {[BaseArgs EXCEPT !.input_path = None, !.output_path = MissingPath],
          [BaseArgs EXCEPT !.input_path = MissingPath, !.load_profile = MissingPath,
                           !.t = "zip"]}
    \cup {[BaseArgs EXCEPT !.artifact_paths = TRUE],
          [BaseArgs EXCEPT !.artifact_paths = TRUE, !.create_profile = OutputDir,
                           !.input_path = None, !.output_path = None, !.t = NoneT]}
    \cup {[BaseArgs EXCEPT !.create_profile = v, !.input_path = None,
                           !.output_path = None, !.t = NoneT]
             : v \in {OutputDir, ProfilePath, MissingPath}}

\* a validation that does not look at the profile path
validate_argsWithoutProfile(a) ==
    IF a.artifact_paths \/ a.create_profile # None THEN "ok"
    ELSE IF a.input_path = None THEN "No INPUT_PATH provided"
    ELSE IF a.output_path = None THEN "No OUTPUT_PATH provided"
    ELSE IF a.t = NoneT THEN "No T provided"
    ELSE IF ~PathExists(a.input_path) THEN "INPUT file/folder does not exist"
    ELSE IF ~PathExists(a.output_path) THEN "OUTPUT folder does not exist"
    ELSE "ok"

\* the message of the ArgumentError validate_args raises, "ok" when it returns
validate_args(a) ==
    IF a.artifact_paths \/ a.create_profile # None THEN "ok"
    ELSE IF a.input_path = None THEN "No INPUT_PATH provided"
    ELSE IF a.output_path = None THEN "No OUTPUT_PATH provided"
    ELSE IF a.t = NoneT THEN "No T provided"
    ELSE IF ~PathExists(a.input_path) THEN "INPUT file/folder does not exist"
    ELSE IF ~PathExists(a.output_path) THEN "OUTPUT folder does not exist"
    ELSE IF a.load_profile # None /\ ~PathExists(a.load_profile)
        THEN "DLEAPP Profile file not found"
    ELSE "ok"

\* ------------------------------------------------------ main: profile load

TagIsDleapp(v) == v.t = "str" /\ v.s = "dleapp"

\* Python's  value != 1  is false for the number 1 and for true
VersionIsOne(v) == (v.t = "num" /\ v.n = 1) \/ v.t = "true"

\* set(profile.get("plugins", [])) raises TypeError for a value that cannot be
\* iterated or that holds an unhashable item
PluginsSetRaises(v) ==
    \/ v.t \in {"num", "null", "true"}
    \/ v.t = "arr" /\ \E i \in DOMAIN v.items : v.items[i].t = "arr"

\* the strings in set(profile.get("plugins", []))
ProfilePluginNames(v) ==
    CASE v.t = "arr" -> {v.items[i].s : i \in {j \in DOMAIN v.items : v.items[j].t = "str"}}
      [] v.t = "str" -> Range(v.chars)
      [] OTHER -> {}

\* a filter that keeps every plugin
FilterKeepsAll(available, names) == available

\* [selected_plugin for selected_plugin in available_plugins
\*      if selected_plugin.name in profile_plugins]
FilterByProfile(available, names) ==
    SelectIn(available, {p \in PluginIds : PluginName(p) \in names})

ProfileLoadError(content) ==
    CASE content.t = "invalid" -> "File was not a valid profile file: JSONDecodeError"
      [] content.t # "dict" -> "File was not a valid profile file: invalid format"
      [] ~TagIsDleapp(content.leapp) \/ ~VersionIsOne(content.format_version)
            -> "File was not a valid profile file: incorrect LEAPP or version"
      [] OTHER -> "ok"

\* ----------------------------------------------------------- create_profile

\* the folders among the existing paths
Folders == {InputDrive, InputShare, OutputDir}

\* a test that takes every path for a folder
IsDirAlways(path) == TRUE

\* os.path.isdir
IsDir(path) == path \in Folders

\* the order of Python's str comparison on the names and categories in use
StrRank(str) ==
    CASE str = "A" -> 1 [] str = "B" -> 2 [] str = "C" -> 3 [] str = "D" -> 4
      [] str = "Device" -> 5 [] str = "Flight" -> 6 [] OTHER -> 0

\* (parser_data.category, parser_data.name)
ParserInfo(p) == <<PluginCategory(p), PluginName(p)>>

\* comparison of two (category, name) tuples
TupleLess(a, b) ==
    \/ StrRank(a[1]) < StrRank(b[1])
    \/ a[1] = b[1] /\ StrRank(a[2]) < StrRank(b[2])

RECURSIVE SortTuples(_)
\* list.sort() on a set of distinct tuples
SortTuples(S) ==
    IF S = {} THEN <<>>
    ELSE LET m == CHOOSE x \in S : \A y \in S \ {x} : TupleLess(x, y)
         IN <<m>> \o SortTuples(S \ {m})

\* available_parsers of create_profile(available_plugins, path)
AvailableParsers(available) == SortTuples({ParserInfo(available[i]) : i \in DOMAIN available})

\* what the user can answer to 'Please enter your choice: '
ChoiceInputs == {"l", "p", "a", "A", "q", "Q", "x", ""}

\* str.lower()
Lower(c) == CASE c = "A" -> "a" [] c = "Q" -> "q" [] OTHER -> c

\* answers to 'Enter the numbers of parsers, ...', after split(',')
NumberInputs ==
    {<<"1">>, <<"2">>, <<"3">>, <<"4">>, <<" 1", "2 ">>, <<"3", "01">>, <<"2", "2">>,
     <<"0">>, <<"9">>, <<"x", "1">>, <<"">>, <<"-1", "1.5">>, <<"2", "U+00B2">>}

\* str.strip()
Strip(tok) == CASE tok = " 1" -> "1" [] tok = "2 " -> "2" [] OTHER -> tok

\* str.isdigit(): true for a non-empty string of characters that are digits,
\* the superscript two (written U+00B2 here) among them
IsDigit(tok) == tok \in {"0", "1", "2", "3", "4", "9", "01", "U+00B2"}

\* int() raises ValueError for a digit that is not a decimal
IntRaises(tok) == tok = "U+00B2"

\* int() of the strings of decimals in use
IntOf(tok) ==
    CASE tok = "0" -> 0 [] tok = "1" -> 1 [] tok = "01" -> 1 [] tok = "2" -> 2
      [] tok = "3" -> 3 [] tok = "4" -> 4 [] tok = "9" -> 9 [] OTHER -> 0

\* the keys of parsers_in_profile
Numbers(selection) == {selection[i][1] : i \in DOMAIN selection}

\* del parsers_in_profile[number]
Delete(selection, number) ==
    LET keep == {i \in DOMAIN selection : selection[i][1] # number}
        ix == SetToSeq(keep)
    IN [i \in 1..Len(ix) |-> selection[ix[i]]]

\* if parser_number not in parsers_in_profile: add it  else: remove it
Toggle(parsers, selection, number) ==
    IF number \notin Numbers(selection)
    THEN Append(selection, <<number, parsers[number]>>)
    ELSE Delete(selection, number)

RECURSIVE AddOrRemove(_, _, _, _)
\* for parser_number in parser_numbers: ...  ; the selection and the messages
\* when the loop ends, by exhaustion or by the ValueError of int()
AddOrRemove(parsers, selection, tokens, printed) ==
    IF tokens = <<>>
    THEN [selection |-> selection, shown |-> printed, raised |-> FALSE]
    ELSE LET tok == Strip(Head(tokens))
         IN IF ~IsDigit(tok)
            THEN AddOrRemove(parsers, selection, Tail(tokens), printed)
            ELSE IF IntRaises(tok)
            THEN [selection |-> selection, shown |-> printed, raised |-> TRUE]
            ELSE IF IntOf(tok) > 0 /\ IntOf(tok) <= Len(parsers)
            THEN AddOrRemove(parsers, Toggle(parsers, selection, IntOf(tok)),
                             Tail(tokens),
                             Append(printed,
                                    IF IntOf(tok) \notin Numbers(selection)
                                    THEN <<"was added", IntOf(tok)>>
                                    ELSE <<"was removed", IntOf(tok)>>))
            ELSE AddOrRemove(parsers, selection, Tail(tokens),
                             Append(printed, <<"Please enter the number of a parser!!!", 0>>))

\* a list of the categories of the selected parsers
ParserCategories(selection) == [i \in DOMAIN selection |-> selection[i][2][1]]

\* [parser_info[1] for parser_info in parsers_in_profile.values()]
ParserNames(selection) == [i \in DOMAIN selection |-> selection[i][2][2]]

\* a document of another format version
ProfileDocumentV2(parsers) ==
    JDict(Dleapp, JNum(2), JArr([i \in DOMAIN parsers |-> JName(parsers[i])]))

\* {"leapp": "dleapp", "format_version": 1, "plugins": parsers} as json.dump
\* writes it
ProfileDocument(parsers) ==
    JDict(Dleapp, JNum(1), JArr([i \in DOMAIN parsers |-> JName(parsers[i])]))

\* answers to 'Enter the name of the profile: '; an empty answer is asked again
ProfileNames == {"mine"}

NoFile == [folder |-> None, name |-> "", suffix |-> "", content |-> NoProfile]

NoInput == [choice |-> "", numbers |-> <<>>]

NoRun == [ran |-> FALSE, profile |-> NoProfile, error |-> "", selected_plugins |-> <<>>]

\* --------------------------------------------------------------------- Init

Init ==
    /\ pc = "start"
    /\ windows \in BOOLEAN
    /\ args = BaseArgs
    /\ available_plugins = <<>>
    /\ selected_plugins = <<>>
    /\ profile = NoProfile
    /\ profile_filename = None
    /\ stdout = <<>>
    /\ plugins = <<>>
    /\ extracttype = NoneT
    /\ input_path = None
    /\ report_folder_base = None
    /\ ratio = 1
    /\ wrap_text = TRUE
    /\ seeker = NoSeeker
    /\ runlog = <<>>
    /\ log = <<>>
    /\ log_state = "unopened"
    /\ idx = 0
    /\ pat = 0
    /\ files_found = <<>>
    /\ folders = {}
    /\ invoked = <<>>
    /\ outcome = <<>>
    /\ categories_searched = 0
    /\ progress = <<>>
    /\ report_calls = <<>>
    /\ result = "none"
    /\ staged = {}
    /\ available_parsers = <<>>
    /\ parsers_in_profile = <<>>
    /\ user_input = NoInput
    /\ shown = <<>>
    /\ profile_file = NoFile
    /\ path_list = <<>>
    /\ second_run = NoRun

crunch_vars == <<plugins, extracttype, input_path, report_folder_base, ratio,
                 wrap_text, seeker, runlog, log, log_state, idx, pat, files_found,
                 folders, invoked, outcome, categories_searched, progress,
                 report_calls, result, staged>>

\* --------------------------------------------------------------------- main

\* main up to parser.parse_args(): the loader's plugins and the command line
MainStart ==
    /\ pc = "start"
    /\ \E reg \in Registries, a \in ArgsSet :
        /\ available_plugins' = reg
        /\ selected_plugins' = reg
        /\ args' = a
    /\ stdout' = Append(stdout, "Info: plugins loaded.")
    /\ pc' = "validate"
    /\ UNCHANGED <<windows, profile, profile_filename>>
    /\ UNCHANGED crunch_vars
    /\ UNCHANGED profile_vars

\* try: validate_args(args)  except ArgumentError: parser.error(...)
ValidateArgs ==
    /\ pc = "validate"
    /\ LET m == validate_args(args)
       IN IF m = "ok"
          THEN pc' = "validated" /\ stdout' = stdout
          ELSE pc' = "exit" /\ stdout' = Append(stdout, m)
    /\ UNCHANGED <<windows, args, available_plugins, selected_plugins, profile,
                   profile_filename>>
    /\ UNCHANGED crunch_vars
    /\ UNCHANGED profile_vars

\* if args.load_profile: ... read and apply the profile file
LoadProfile ==
    /\ pc = "validated"
    /\ ~args.artifact_paths
    /\ args.create_profile = None
    /\ IF args.load_profile = None
       THEN /\ pc' = "prepare"
            /\ UNCHANGED <<profile, profile_filename, selected_plugins, stdout>>
       ELSE \E content \in ProfileContents :
            /\ profile_filename' = args.load_profile
            /\ profile' = content
            /\ IF ProfileLoadError(content) # "ok"
               THEN /\ stdout' = Append(stdout, ProfileLoadError(content))
                    /\ pc' = "returned"
                    /\ UNCHANGED selected_plugins
               ELSE IF PluginsSetRaises(content.plugins)
               THEN /\ pc' = "crashed"
                    /\ UNCHANGED <<selected_plugins, stdout>>
               ELSE /\ selected_plugins' =
                          FilterByProfile(available_plugins,
                                          ProfilePluginNames(content.plugins))
                    /\ pc' = "prepare"
                    /\ UNCHANGED stdout
    /\ UNCHANGED <<windows, args, available_plugins>>
    /\ UNCHANGED crunch_vars
    /\ UNCHANGED profile_vars

\* the \\?\ prefix main puts on Windows drive-letter paths
MainInputPath ==
    IF windows /\ HasDrive(args.input_path) /\ args.t = "fs"
    THEN AddPrefix(args.input_path) ELSE args.input_path

MainOutputPath ==
    IF windows /\ HasDrive(args.output_path)
    THEN AddPrefix(args.output_path) ELSE args.output_path

\* OutputParameters(output_path).report_folder_base
ReportFolderBase(output_path) == Join(output_path, "DLEAPP_Reports")

\* main from input_path = args.input_path to the call of crunch_artifacts
PrepareRun ==
    /\ pc = "prepare"
    /\ input_path' = MainInputPath
    /\ report_folder_base' = ReportFolderBase(MainOutputPath)
    /\ plugins' = selected_plugins
    /\ extracttype' = args.t
    /\ ratio' = 1
    /\ wrap_text' = args.wrap_text
    /\ pc' = "crunch"
    /\ UNCHANGED main_vars
    /\ UNCHANGED profile_vars
    /\ UNCHANGED staged
    /\ UNCHANGED <<seeker, runlog, log, log_state, idx, pat, files_found, folders,
                   invoked, outcome, categories_searched, progress, report_calls,
                   result>>

\* crunch_artifacts called by another front end of the package, with its own
\* plugin list, container kind and progress ratio
DirectCall ==
    /\ pc = "start"
    /\ \E pl \in Registries, et \in {"zip", "other"} :
        /\ plugins' = pl
        /\ extracttype' = et
    /\ input_path' = InputShare
    /\ report_folder_base' = ReportFolderBase(OutputDir)
    /\ ratio' = 2
    /\ wrap_text' = TRUE
    /\ pc' = "crunch"
    /\ UNCHANGED main_vars
    /\ UNCHANGED profile_vars
    /\ UNCHANGED staged
    /\ UNCHANGED <<seeker, runlog, log, log_state, idx, pat, files_found, folders,
                   invoked, outcome, categories_searched, progress, report_calls,
                   result>>

\* ---------------------------------------------------------- crunch_artifacts

\* an unknown container kind treated like an archive
ExtractTypesAndOthers == {"fs", "tar", "gz", "zip", "other"}

\* the container kinds the if/elif chain builds a Seeker for
ExtractTypes == {"fs", "tar", "gz", "zip"}

SeekerKind(et) == CASE et = "fs" -> "dir" [] et = "zip" -> "zip" [] OTHER -> "tar"

\* FileSeekerDir answers with paths below the input folder, the archive
\* Seekers with paths below out_params.temp_folder
SeekerRoot(et, inp, base) == IF et = "fs" THEN inp ELSE Join(base, "temp")

LogMsg(msg, name, detail) == [msg |-> msg, name |-> name, detail |-> detail]

\* the patterns taken last to first
search_regexesReversed(p) ==
    IF SearchIsSequence(p)
    THEN [k \in DOMAIN PluginSearch(p) |-> PluginSearch(p)[Len(PluginSearch(p)) + 1 - k]]
    ELSE <<PluginSearch(p)>>

\* search_regexes of the loop body
search_regexes(p) == IF SearchIsSequence(p) THEN PluginSearch(p) ELSE <<PluginSearch(p)>>

\* a log that only mentions the patterns that found something
AuditEntriesFoundOnly(p, i, k, regex, found) ==
    IF found = <<>> THEN <<>>
    ELSE <<[kind |-> "found", name |-> PluginName(p), regex |-> regex,
            count |-> Len(found),
            paths |-> [j \in 1..Len(found) |-> StripPrefix(found[j])],
            i |-> i, k |-> k]>>

\* what the loop writes to the processed-files log for one pattern; i and k
\* number the plugin and the pattern the entry belongs to
AuditEntries(p, i, k, regex, found) ==
    IF found = <<>>
    THEN <<[kind |-> "nofile", name |-> PluginName(p), regex |-> regex, count |-> 0,
            paths |-> <<>>, i |-> i, k |-> k]>>
    ELSE <<[kind |-> "found", name |-> PluginName(p), regex |-> regex,
            count |-> Len(found),
            paths |-> [j \in 1..Len(found) |-> StripPrefix(found[j])],
            i |-> i, k |-> k]>>

\* a list that keeps the matches of the last pattern only
ExtendFilesFoundLastOnly(ff, found) == found

\* files_found.extend(found)
ExtendFilesFound(ff, found) == ff \o found

MkdirOutcomes == {"ok", "FileExistsError", "FileNotFoundError", "PermissionError"}

\* except (FileExistsError, FileNotFoundError)
CaughtMkdirErrors == {"FileExistsError", "FileNotFoundError"}

\* what plugin.method can do: return, or raise some Exception
ParseOutcomes == {"ok", "KeyError", "OSError"}

\* a handler that names one exception class only
ParseExceptionCaughtOSErrorOnly(r) == r = "OSError"

\* except Exception: every exception plugin.method raises is caught
ParseExceptionCaught(r) == TRUE

\* a test that lets every plugin through
HasFilesAlways(ff) == TRUE

\* if files_found:
HasFiles(ff) == ff # <<>>

\* what happened in one turn of the plugin loop: "nomatch", "ok", "failed" (the
\* parse routine raised err) or "mkdir_failed" (os.mkdir raised err), and
\* whether the loop went on afterwards
Outcome(how, err, went_on) == [how |-> how, err |-> err, went_on |-> went_on]

CurrentPlugin == plugins[idx]

CategoryFolder(p) == Join(report_folder_base, PluginCategory(p))

\* crunch_artifacts from its first line to categories_searched = 0
ConstructSeeker ==
    /\ pc = "crunch"
    /\ IF extracttype \notin ExtractTypes
       THEN /\ runlog' = runlog \o <<LogMsg("Processing started", "", ""),
                                     LogMsg("Error on argument -o (input type)", "", "")>>
            /\ result' = "False"
            /\ pc' = "done"
            /\ UNCHANGED <<seeker, log, log_state, categories_searched>>
       ELSE \/ /\ runlog' = runlog \o <<LogMsg("Processing started", "", ""),
                                        LogMsg("Had an exception in Seeker", "", "traceback")>>
               /\ result' = "False"
               /\ pc' = "done"
               /\ UNCHANGED <<seeker, log, log_state, categories_searched>>
            \/ /\ \E members \in SUBSET FileIds :
                    seeker' = [kind |-> SeekerKind(extracttype),
                               root |-> SeekerRoot(extracttype, input_path,
                                                   report_folder_base),
                               members |-> members]
               /\ runlog' = runlog \o <<LogMsg("Processing started", "", ""),
                                        LogMsg("Artifact categories to parse", "", "")>>
               /\ log_state' = "open"
               /\ log' = <<[kind |-> "selected", name |-> "", regex |-> "", count |-> 0,
                            paths |-> <<input_path>>, i |-> 0, k |-> 0]>>
               /\ categories_searched' = 0
               /\ result' = result
               /\ pc' = "for"
    /\ UNCHANGED main_vars
    /\ UNCHANGED profile_vars
    /\ UNCHANGED staged
    /\ UNCHANGED <<plugins, extracttype, input_path, report_folder_base, ratio,
                   wrap_text, idx, pat, files_found, folders, invoked, outcome,
                   progress, report_calls>>

\* for plugin in plugins: ... files_found = []; the parser's heading in the log
BeginPlugin ==
    /\ pc = "for"
    /\ idx < Len(plugins)
    /\ idx' = idx + 1
    /\ pat' = 0
    /\ files_found' = <<>>
    /\ log' = Append(log, [kind |-> "header", name |-> PluginName(plugins[idx + 1]),
                           regex |-> "", count |-> 0, paths |-> <<>>,
                           i |-> idx + 1, k |-> 0])
    /\ pc' = "search"
    /\ UNCHANGED main_vars
    /\ UNCHANGED profile_vars
    /\ UNCHANGED staged
    /\ UNCHANGED <<plugins, extracttype, input_path, report_folder_base, ratio,
                   wrap_text, seeker, runlog, log_state, folders, invoked, outcome,
                   categories_searched, progress, report_calls, result>>

\* one turn of  for artifact_search_regex in search_regexes
SearchPattern ==
    /\ pc = "search"
    /\ pat < Len(search_regexes(CurrentPlugin))
    /\ LET regex == search_regexes(CurrentPlugin)[pat + 1]
           found == SeekerSearch(seeker, regex)
       IN /\ log' = log \o AuditEntries(CurrentPlugin, idx, pat + 1, regex, found)
          /\ files_found' = IF found = <<>> THEN files_found
                            ELSE ExtendFilesFound(files_found, found)
          /\ staged' = SeekerStage(seeker, regex, staged)
    /\ pat' = pat + 1
    /\ UNCHANGED pc
    /\ UNCHANGED main_vars
    /\ UNCHANGED profile_vars
    /\ UNCHANGED <<plugins, extracttype, input_path, report_folder_base, ratio,
                   wrap_text, seeker, runlog, log_state, idx, folders, invoked,
                   outcome, categories_searched, progress, report_calls, result>>

\* categories_searched += 1; GuiWindow.SetProgressBar(categories_searched * ratio)
AdvanceProgress ==
    /\ categories_searched' = categories_searched + 1
    /\ progress' = Append(progress, (categories_searched + 1) * ratio)

\* if files_found: is false; the end of the loop body
SkipEmpty ==
    /\ pc = "search"
    /\ pat = Len(search_regexes(CurrentPlugin))
    /\ ~HasFiles(files_found)
    /\ AdvanceProgress
    /\ outcome' = Append(outcome, Outcome("nomatch", "", TRUE))
    /\ pc' = "for"
    /\ UNCHANGED main_vars
    /\ UNCHANGED profile_vars
    /\ UNCHANGED staged
    /\ UNCHANGED <<plugins, extracttype, input_path, report_folder_base, ratio,
                   wrap_text, seeker, runlog, log, log_state, idx, pat, files_found,
                   folders, invoked, report_calls, result>>

\* if files_found: ... the category folder is made when it does not exist
EnsureFolder ==
    /\ pc = "search"
    /\ pat = Len(search_regexes(CurrentPlugin))
    /\ HasFiles(files_found)
    /\ LET p == CurrentPlugin
           started == LogMsg("artifact started", PluginName(p), PluginModule(p))
       IN IF PluginCategory(p) \in folders
          THEN /\ runlog' = Append(runlog, started)
               /\ pc' = "invoke"
               /\ UNCHANGED <<folders, outcome, result>>
          ELSE \E r \in MkdirOutcomes :
               CASE r = "ok" ->
                    /\ folders' = folders \cup {PluginCategory(p)}
                    /\ runlog' = Append(runlog, started)
                    /\ pc' = "invoke"
                    /\ UNCHANGED <<outcome, result>>
                 [] r \in CaughtMkdirErrors ->
                    /\ runlog' = runlog \o <<started,
                           LogMsg("Error creating report directory", PluginName(p), ""),
                           LogMsg("Error was", "", r)>>
                    /\ outcome' = Append(outcome, Outcome("mkdir_failed", r, TRUE))
                    /\ pc' = "for"
                    /\ UNCHANGED <<folders, result>>
                 [] OTHER ->
                    /\ runlog' = Append(runlog, started)
                    /\ outcome' = Append(outcome, Outcome("mkdir_failed", r, FALSE))
                    /\ result' = "raised"
                    /\ pc' = "raised"
                    /\ UNCHANGED folders
    /\ UNCHANGED main_vars
    /\ UNCHANGED profile_vars
    /\ UNCHANGED staged
    /\ UNCHANGED <<plugins, extracttype, input_path, report_folder_base, ratio,
                   wrap_text, seeker, log, log_state, idx, pat, files_found, invoked,
                   categories_searched, progress, report_calls>>

\* try: plugin.method(...) except Exception: ... continue; then the progress
Invoke ==
    /\ pc = "invoke"
    /\ LET p == CurrentPlugin
       IN /\ invoked' = Append(invoked, [plugin |-> p, i |-> idx, files |-> files_found,
                                         folder |-> CategoryFolder(p),
                                         seeker |-> seeker, wrap |-> wrap_text])
          /\ \E r \in ParseOutcomes :
               IF r = "ok"
               THEN /\ runlog' = Append(runlog, LogMsg("artifact completed",
                                                       PluginName(p), PluginModule(p)))
                    /\ outcome' = Append(outcome, Outcome("ok", "", TRUE))
                    /\ AdvanceProgress
                    /\ pc' = "for"
                    /\ UNCHANGED result
               ELSE IF ParseExceptionCaught(r)
               THEN /\ runlog' = runlog \o
                          <<LogMsg("Reading artifact had errors!", PluginName(p), ""),
                            LogMsg("Error was", "", r),
                            LogMsg("Exception Traceback", "", r)>>
                    /\ outcome' = Append(outcome, Outcome("failed", r, TRUE))
                    /\ pc' = "for"
                    /\ UNCHANGED <<categories_searched, progress, result>>
               ELSE /\ outcome' = Append(outcome, Outcome("failed", r, FALSE))
                    /\ result' = "raised"
                    /\ pc' = "raised"
                    /\ UNCHANGED <<categories_searched, progress, runlog>>
    /\ UNCHANGED main_vars
    /\ UNCHANGED profile_vars
    /\ UNCHANGED staged
    /\ UNCHANGED <<plugins, extracttype, input_path, report_folder_base, ratio,
                   wrap_text, seeker, log, log_state, idx, pat, files_found, folders,
                   report_calls>>

\* log.close() and the run time, after the loop
CloseLog ==
    /\ pc = "for"
    /\ idx = Len(plugins)
    /\ log_state' = "closed"
    /\ runlog' = Append(runlog, LogMsg("Processes completed.", "", ""))
    /\ pc' = "report"
    /\ UNCHANGED main_vars
    /\ UNCHANGED profile_vars
    /\ UNCHANGED staged
    /\ UNCHANGED <<plugins, extracttype, input_path, report_folder_base, ratio,
                   wrap_text, seeker, log, idx, pat, files_found, folders, invoked,
                   outcome, categories_searched, progress, report_calls, result>>

\* the prefix is taken off again, report.generate_report is called, return True
GenerateReport ==
    /\ pc = "report"
    /\ LET base == IF windows THEN StripPrefix(report_folder_base)
                   ELSE report_folder_base
           inp == IF windows THEN StripPrefix(input_path) ELSE input_path
       IN /\ report_folder_base' = base
          /\ input_path' = inp
          /\ report_calls' = Append(report_calls,
                 [report_folder_base |-> base, extracttype |-> extracttype,
                  input_path |-> inp])
    /\ runlog' = runlog \o <<LogMsg("Report generation started.", "", ""),
                             LogMsg("Report generation Completed.", "", "")>>
    /\ result' = "True"
    /\ pc' = "done"
    /\ UNCHANGED main_vars
    /\ UNCHANGED profile_vars
    /\ UNCHANGED staged
    /\ UNCHANGED <<plugins, extracttype, ratio, wrap_text, seeker, log, log_state,
                   idx, pat, files_found, folders, invoked, outcome,
                   categories_searched, progress>>

\* ------------------------------------------------------ main: utility modes

\* the lines main writes for one plugin in the artifact-paths mode
PathLines(p) == IF SearchIsSequence(p) THEN PluginSearch(p) ELSE <<PluginSearch(p)>>

RECURSIVE AllPathLines(_)
AllPathLines(pl) == IF pl = <<>> THEN <<>> ELSE PathLines(Head(pl)) \o AllPathLines(Tail(pl))

\* if args.artifact_paths: ... return
ArtifactPaths ==
    /\ pc = "validated"
    /\ args.artifact_paths
    /\ path_list' = path_list \o AllPathLines(available_plugins)
    /\ stdout' = stdout \o <<"Artifact path list generation started.">>
                        \o AllPathLines(available_plugins)
                        \o <<"Artifact path list generation completed">>
    /\ pc' = "returned"
    /\ UNCHANGED <<windows, args, available_plugins, selected_plugins, profile,
                   profile_filename>>
    /\ UNCHANGED crunch_vars
    /\ UNCHANGED <<available_parsers, parsers_in_profile, user_input, shown,
                   profile_file, second_run>>

\* if args.create_profile: ... up to the first prompt of create_profile, or
\* the message about the folder and return
CreateProfileMode ==
    /\ pc = "validated"
    /\ ~args.artifact_paths
    /\ args.create_profile # None
    /\ IF IsDir(args.create_profile)
       THEN /\ available_parsers' = AvailableParsers(selected_plugins)
            /\ parsers_in_profile' = <<>>
            /\ shown' = <<"Welcome to the DLEAPP Profile file creation">>
            /\ pc' = "cp_menu"
            /\ UNCHANGED stdout
       ELSE /\ stdout' = Append(stdout,
                   "OUTPUT folder for storing DLEAPP Profile file does not exist!")
            /\ pc' = "returned"
            /\ UNCHANGED <<available_parsers, parsers_in_profile, shown>>
    /\ UNCHANGED <<windows, args, available_plugins, selected_plugins, profile,
                   profile_filename>>
    /\ UNCHANGED crunch_vars
    /\ UNCHANGED <<user_input, profile_file, path_list, second_run>>

\* what stays as it is during the dialogue of create_profile
dialogue_unchanged == <<main_vars, crunch_vars, available_parsers, path_list, second_run>>

\* user_choice == "l"
ChoiceList ==
    /\ pc = "cp_menu"
    /\ \E c \in ChoiceInputs : Lower(c) = "l"
    /\ user_input' = [choice |-> "l", numbers |-> <<>>]
    /\ shown' = [n \in DOMAIN available_parsers |-> <<n, available_parsers[n]>>]
    /\ UNCHANGED <<pc, parsers_in_profile, profile_file>>
    /\ UNCHANGED dialogue_unchanged

\* user_choice == "p"
ChoicePrint ==
    /\ pc = "cp_menu"
    /\ \E c \in ChoiceInputs : Lower(c) = "p"
    /\ user_input' = [choice |-> "p", numbers |-> <<>>]
    /\ shown' = IF parsers_in_profile # <<>> THEN parsers_in_profile
                ELSE <<"No parser added to the profile file">>
    /\ UNCHANGED <<pc, parsers_in_profile, profile_file>>
    /\ UNCHANGED dialogue_unchanged

\* user_choice == 'a'
ChoiceAdd ==
    /\ pc = "cp_menu"
    /\ \E c \in ChoiceInputs, tokens \in NumberInputs :
        /\ Lower(c) = "a"
        /\ user_input' = [choice |-> "a", numbers |-> tokens]
        /\ LET r == AddOrRemove(available_parsers, parsers_in_profile, tokens, <<>>)
           IN /\ parsers_in_profile' = r.selection
              /\ shown' = r.shown
              /\ pc' = IF r.raised THEN "crashed" ELSE "cp_menu"
    /\ UNCHANGED profile_file
    /\ UNCHANGED dialogue_unchanged

\* user_choice == "q": the profile is written when parsers are selected;
\* create_profile returns, and main with it
ChoiceQuit ==
    /\ pc = "cp_menu"
    /\ \E c \in ChoiceInputs : Lower(c) = "q"
    /\ user_input' = [choice |-> "q", numbers |-> <<>>]
    /\ IF parsers_in_profile # <<>>
       THEN \E name \in ProfileNames :
            /\ profile_file' =
                  [folder |-> args.create_profile, name |-> name,
                   suffix |-> ".dlprofile",
                   content |-> ProfileDocument(ParserNames(parsers_in_profile))]
            /\ shown' = <<"Profile saved:", name>>
       ELSE /\ shown' = <<"No parser added. The profile file was not created.">>
            /\ UNCHANGED profile_file
    /\ pc' = "returned"
    /\ UNCHANGED parsers_in_profile
    /\ UNCHANGED dialogue_unchanged

\* any other answer
ChoiceInvalid ==
    /\ pc = "cp_menu"
    /\ \E c \in ChoiceInputs : Lower(c) \notin {"l", "p", "a", "q"}
    /\ user_input' = [choice |-> "invalid", numbers |-> <<>>]
    /\ shown' = <<"Please enter a valid choice!!!">>
    /\ UNCHANGED <<pc, parsers_in_profile, profile_file>>
    /\ UNCHANGED dialogue_unchanged

\* a later run of main on the same installation, with --load_profile naming
\* the file create_profile wrote: the profile block of main
RunWithProfile ==
    /\ pc = "returned"
    /\ profile_file # NoFile
    /\ LET content == profile_file.content
           error == IF ProfileLoadError(content) # "ok" THEN ProfileLoadError(content)
                    ELSE IF PluginsSetRaises(content.plugins) THEN "TypeError"
                    ELSE "ok"
       IN second_run' =
             [ran |-> TRUE, profile |-> content, error |-> error,
              selected_plugins |->
                  IF error = "ok"
                  THEN FilterByProfile(available_plugins,
                                       ProfilePluginNames(content.plugins))
                  ELSE available_plugins]
    /\ pc' = "reloaded"
    /\ UNCHANGED main_vars
    /\ UNCHANGED crunch_vars
    /\ UNCHANGED <<available_parsers, parsers_in_profile, user_input, shown,
                   profile_file, path_list>>

Next ==
    \/ MainStart
    \/ ValidateArgs
    \/ LoadProfile
    \/ PrepareRun
    \/ DirectCall
    \/ ConstructSeeker
    \/ BeginPlugin
    \/ SearchPattern
    \/ SkipEmpty
    \/ EnsureFolder
    \/ Invoke
    \/ CloseLog
    \/ GenerateReport
    \/ ArtifactPaths
    \/ CreateProfileMode
    \/ ChoiceList
    \/ ChoicePrint
    \/ ChoiceAdd
    \/ ChoiceQuit
    \/ ChoiceInvalid
    \/ RunWithProfile

Spec == Init /\ [][Next]_vars

\* ------------------------------------------------- notions used by the claims

\* crunch_artifacts has been entered
PassStarted == runlog # <<>>

\* the plugin loop is over: by reaching Finalize or by an escaping exception
PassEnded == PassStarted /\ pc \in {"report", "done", "raised"}

Finalized == pc \in {"report", "done"} /\ log_state = "closed"

Processed(i) == i \in DOMAIN outcome

PatternCount(i) == Len(search_regexes(plugins[i]))

\* the files of the container that pattern k of plugin i matches
MatchedFiles(i, k) ==
    {f \in seeker.members : RegexMatches(search_regexes(plugins[i])[k], f)}

HasMatches(i) == \E k \in 1..PatternCount(i) : MatchedFiles(i, k) # {}

PatternEntries(i, k) ==
    {n \in DOMAIN log : log[n].kind \in {"nofile", "found"} /\ log[n].i = i /\ log[n].k = k}

Searched(i) == \A k \in 1..PatternCount(i) : PatternEntries(i, k) # {}

Invocations(i) == {n \in DOMAIN invoked : invoked[n].i = i}

\* the run log holds the failure of plugin i's parse routine: its name, then
\* the exception
FailureLogged(i) ==
    \E n \in 1..(Len(runlog) - 1) :
        /\ runlog[n].msg = "Reading artifact had errors!"
        /\ runlog[n].name = PluginName(plugins[i])
        /\ runlog[n + 1].msg = "Error was"
        /\ runlog[n + 1].detail = outcome[i].err

FolderTrouble(i) == Processed(i) /\ outcome[i].how = "mkdir_failed"

\* -------------------------------------------------------------------- claims

C2_ProgressPerPlugin ==
    (PassStarted /\ pc \in {"for", "report", "done"}) =>
        /\ categories_searched = Len(outcome)
        /\ Len(progress) = Len(outcome)
        /\ progress # <<>> => progress[Len(progress)] = Len(outcome) * ratio
        /\ (Finalized /\ plugins # <<>>) =>
              (progress # <<>> /\ progress[Len(progress)] = Len(plugins) * ratio)

\* C3: the matches handed to a parse routine hold each location once.
C3_NoDuplicateMatches ==
    \A n \in DOMAIN invoked :
        \A a, b \in DOMAIN invoked[n].files :
            invoked[n].files[a] = invoked[n].files[b] => a = b

\* C4: when a plugin has matches, a category folder that is already there lets
\* the plugin be invoked, and a folder that cannot be made, for whatever
\* reason, is logged and skips this plugin only: the loop goes on.
C4_FolderCreation ==
    [][(pc = "search" /\ pc' # "search" /\ HasFiles(files_found)) =>
         /\ PluginCategory(CurrentPlugin) \in folders => pc' = "invoke"
         /\ pc' \in {"invoke", "for"}
         /\ pc' = "for" =>
              /\ invoked' = invoked
              /\ \E n \in DOMAIN runlog' :
                    /\ n > Len(runlog)
                    /\ runlog'[n].msg = "Error creating report directory"
                    /\ runlog'[n].name = PluginName(CurrentPlugin)]_vars

\* C5: once the pass has reached Finalize, the processed-files log holds, for
\* every plugin of the list and every pattern it declares, exactly one entry:
\* "no file found" when the pattern matches nothing, else the number of
\* matches and their locations without the long-path prefix; whether the
\* plugin was skipped, ran or failed.
C5_AuditCompleteness ==
    Finalized =>
        /\ \A i \in 1..Len(plugins) : \A k \in 1..PatternCount(i) :
              /\ Cardinality(PatternEntries(i, k)) = 1
              /\ \A n \in PatternEntries(i, k) :
                    /\ log[n].name = PluginName(plugins[i])
                    /\ log[n].regex = search_regexes(plugins[i])[k]
                    /\ IF MatchedFiles(i, k) = {}
                       THEN log[n].kind = "nofile"
                       ELSE /\ log[n].kind = "found"
                            /\ log[n].count = Cardinality(MatchedFiles(i, k))
                            /\ Len(log[n].paths) = log[n].count
                            /\ Range(log[n].paths) =
                                 {StripPrefix(Join(seeker.root, FileNames[f]))
                                    : f \in MatchedFiles(i, k)}
                            /\ \A m \in DOMAIN log[n].paths :
                                 ~StartsWithPrefix(log[n].paths[m])
        /\ \A n \in DOMAIN log :
              log[n].kind \in {"nofile", "found"} =>
                  /\ log[n].i \in 1..Len(plugins)
                  /\ log[n].k \in 1..PatternCount(log[n].i)

\* a finalized pass over three plugins: one without matches, one that ran and
\* one that failed, on a Seeker whose paths carry the long-path prefix
C5_Witness ==
    /\ Finalized
    /\ Len(plugins) = 3
    /\ StartsWithPrefix(seeker.root)
    /\ \E i, j, m \in DOMAIN outcome :
          /\ outcome[i].how = "nomatch"
          /\ outcome[j].how = "ok"
          /\ outcome[m].how = "failed"
    /\ \E n \in DOMAIN log : log[n].kind = "found" /\ log[n].regex = "*.log"

\* C6: a plugin none of whose patterns matches is not invoked, gets no
\* category folder, leaves no message in the run log, and leaves in the
\* processed-files log only its heading and the "no file found" entries; the
\* loop then goes on as after any plugin, the progress counter included.
C6_EmptyMatchSkip ==
    /\ \A i \in DOMAIN outcome :
          ~HasMatches(i) =>
              /\ outcome[i] = Outcome("nomatch", "", TRUE)
              /\ Invocations(i) = {}
              /\ \A n \in DOMAIN runlog : runlog[n].name # PluginName(plugins[i])
              /\ Searched(i)
              /\ \A n \in DOMAIN log : log[n].i = i => log[n].kind \in {"header", "nofile"}
    /\ folders \subseteq {PluginCategory(plugins[j]) : j \in {m \in 1..idx : HasMatches(m)}}
    /\ Len(progress) = Cardinality({m \in DOMAIN outcome : outcome[m].how \in {"nomatch", "ok"}})

\* a plugin without matches between two that ran
C6_Witness ==
    /\ pc = "done"
    /\ Len(outcome) = 3
    /\ outcome[1].how = "ok"
    /\ outcome[2].how = "nomatch"
    /\ outcome[3].how = "ok"
    /\ progress = <<1, 2, 3>>

\* the shape {schemaTag, format_version, plugins: sequence of strings}
WellFormedProfile(c) ==
    /\ c.t = "dict"
    /\ c.leapp.t = "str" /\ c.leapp.s = "dleapp"
    /\ c.format_version.t = "num" /\ c.format_version.n = 1
    /\ c.plugins.t = "arr"
    /\ \A n \in DOMAIN c.plugins.items : c.plugins.items[n].t = "str"

\* C7: a profile file that is malformed, of another shape, or of another tag
\* or version is rejected as a whole: main goes no further, and what it
\* reports is not the "profile not found" error.
C7_ProfileFailsClosed ==
    (profile.t # "none" /\ ~WellFormedProfile(profile)) =>
        /\ pc \in {"returned", "crashed"}
        /\ ~PassStarted
        /\ plugins = <<>>
        /\ pc = "returned" =>
             stdout[Len(stdout)] \in
                {"File was not a valid profile file: JSONDecodeError",
                 "File was not a valid profile file: invalid format",
                 "File was not a valid profile file: incorrect LEAPP or version"}

\* position of a plugin in a list without repetitions
Position(s, x) == CHOOSE n \in DOMAIN s : s[n] = x

\* main has got past the loading of the profile
PastProfile ==
    /\ stdout # <<>>
    /\ pc \in {"prepare", "crunch", "for", "search", "invoke", "report", "done", "raised"}

\* C8: with a valid profile the plugins dispatched are the registry's plugins
\* whose name the profile lists, in the registry's order; names the registry
\* does not know are dropped without an error; without a profile the whole
\* registry is dispatched.
C8_ProfileSelection ==
    PastProfile =>
        /\ profile.t = "none" => selected_plugins = available_plugins
        /\ WellFormedProfile(profile) =>
             LET names == {profile.plugins.items[n].s : n \in DOMAIN profile.plugins.items}
             IN /\ Range(selected_plugins) =
                      {p \in Range(available_plugins) : PluginName(p) \in names}
                /\ \A a, b \in DOMAIN selected_plugins :
                      a < b => Position(available_plugins, selected_plugins[a])
                                 < Position(available_plugins, selected_plugins[b])
                /\ stdout = <<"Info: plugins loaded.">>
        /\ pc # "prepare" => plugins = selected_plugins

\* the profile lists B then A, the registry holds A, D, B: A and B are
\* dispatched, in the registry's order
C8_Witness ==
    /\ pc = "crunch"
    /\ WellFormedProfile(profile)
    /\ Len(profile.plugins.items) = 2
    /\ profile.plugins.items[1].s = "B"
    /\ available_plugins = <<1, 4, 2>>
    /\ plugins = <<1, 2>>

\* C9: in every pass whose Seeker was built, generate_report is called once,
\* after the last plugin and the closing of the log, never earlier, and
\* crunch_artifacts returns True.
C9_ReportHandOff ==
    /\ (PassEnded /\ pc # "report" /\ seeker # NoSeeker) =>
          (Len(report_calls) = 1 /\ result = "True")
    /\ report_calls # <<>> =>
          /\ Len(report_calls) = 1
          /\ log_state = "closed"
          /\ Len(outcome) = Len(plugins)
          /\ pc = "done"

\* C10: when the container kind is not fs, tar, gz or zip, or the Seeker's
\* constructor raises, crunch_artifacts logs an error and returns False, and
\* has opened no log, searched nothing, invoked nothing, reported no progress
\* and called no report generator.
C10_SeekerFailureFatal ==
    /\ (PassStarted /\ extracttype \notin {"fs", "tar", "gz", "zip"}) => seeker = NoSeeker
    /\ (PassStarted /\ seeker = NoSeeker) =>
          /\ pc = "done"
          /\ result = "False"
          /\ runlog[Len(runlog)].msg \in {"Error on argument -o (input type)",
                                          "Had an exception in Seeker"}
          /\ log_state = "unopened"
          /\ log = <<>>
          /\ idx = 0
          /\ outcome = <<>>
          /\ invoked = <<>>
          /\ folders = {}
          /\ categories_searched = 0
          /\ progress = <<>>
          /\ report_calls = <<>>

\* the constructor of the tar Seeker raised, with three plugins waiting
C10_Witness ==
    /\ pc = "done"
    /\ result = "False"
    /\ extracttype = "tar"
    /\ Len(plugins) = 3
    /\ runlog[Len(runlog)].msg = "Had an exception in Seeker"

\* C11: nothing written to the processed-files log and no path given to
\* report.generate_report carries the long-path prefix, whatever prefix main
\* put on the input and output paths.
C11_PrefixNeverSurfaces ==
    /\ \A n \in DOMAIN log : \A m \in DOMAIN log[n].paths :
          ~StartsWithPrefix(log[n].paths[m])
    /\ \A n \in DOMAIN report_calls :
          /\ ~StartsWithPrefix(report_calls[n].report_folder_base)
          /\ ~StartsWithPrefix(report_calls[n].input_path)

\* the registry plugins whose parser is in the selection of create_profile
SelectedPlugins ==
    {p \in Range(available_plugins) :
        \E i \in DOMAIN parsers_in_profile : parsers_in_profile[i][2] = ParserInfo(p)}

\* the selection made in any other order
Reorderings(selection) ==
    {s \in [DOMAIN selection -> Range(selection)] :
        \A i, j \in DOMAIN selection : s[i] = s[j] => i = j}

\* C12: a selection saved by create_profile and loaded by a later run of main
\* is accepted and gives the list of exactly the selected plugins; the list is
\* the one any other order of selecting the same parsers gives.
C12_ProfileRoundTrip ==
    second_run.ran =>
        /\ parsers_in_profile # <<>>
        /\ second_run.error = "ok"
        /\ Range(second_run.selected_plugins) = SelectedPlugins
        /\ \A a, b \in DOMAIN second_run.selected_plugins :
              second_run.selected_plugins[a] = second_run.selected_plugins[b] => a = b
        /\ \A s \in Reorderings(parsers_in_profile) :
              LET doc == ProfileDocument(ParserNames(s))
              IN /\ ProfileLoadError(doc) = "ok"
                 /\ ~PluginsSetRaises(doc.plugins)
                 /\ FilterByProfile(available_plugins, ProfilePluginNames(doc.plugins))
                      = second_run.selected_plugins

\* the registry holds B, A, D; A and then B are selected and saved; the later
\* run dispatches B and A, in the registry's order
C12_Witness ==
    /\ second_run.ran
    /\ available_plugins = <<2, 1, 4>>
    /\ ParserNames(parsers_in_profile) = <<"A", "B">>
    /\ second_run.selected_plugins = <<2, 1>>

RECURSIVE MatchesUpTo(_, _)
\* what the Seeker returns for the first k patterns of plugin i, one pattern
\* after the other
MatchesUpTo(i, k) ==
    IF k = 0 THEN <<>>
    ELSE MatchesUpTo(i, k - 1) \o SeekerSearch(seeker, search_regexes(plugins[i])[k])

\* the arguments of every call of a parse routine are the matches of all the
\* plugin's patterns in declaration order, the plugin's category folder under
\* the report base, the Seeker of the pass and the wrap-text flag
InvocationArguments ==
    \A n \in DOMAIN invoked :
        LET i == invoked[n].i
        IN /\ invoked[n].plugin = plugins[i]
           /\ invoked[n].files = MatchesUpTo(i, PatternCount(i))
           /\ invoked[n].files # <<>>
           /\ StripPrefix(invoked[n].folder) = StripPrefix(CategoryFolder(plugins[i]))
           /\ PluginCategory(plugins[i]) \in folders
           /\ invoked[n].seeker = seeker
           /\ invoked[n].wrap = wrap_text

\* C13 as stated: every plugin is invoked at most once, a pass that is over
\* has invoked every plugin of the list that has matches, and the arguments
\* are as above.
C13_InvokedOncePerMatch ==
    /\ \A i \in 1..Len(plugins) : Cardinality(Invocations(i)) <= 1
    /\ PassEnded =>
          \A i \in 1..Len(plugins) : HasMatches(i) => Cardinality(Invocations(i)) = 1
    /\ InvocationArguments

\* C13, amended, as a property of every step: a call of a parse routine is
\* the first call for the plugin the loop is at and carries the matches of all
\* its patterns in declaration order, its category folder under the report
\* base, the Seeker of the pass and the wrap-text flag; when the turn of a
\* plugin ends, it has been called once if it has matches and its category
\* folder was there or could be made, and not at all otherwise; the Seeker and
\* the flag stay the same during the pass.
C13_InvokedOncePerMatchWithFolder ==
    [][/\ invoked' # invoked =>
             /\ invoked' = Append(invoked, invoked'[Len(invoked')])
             /\ Invocations(idx) = {}
             /\ LET call == invoked'[Len(invoked')]
                IN /\ call.i = idx
                   /\ call.plugin = plugins[idx]
                   /\ call.files = MatchesUpTo(idx, PatternCount(idx))
                   /\ call.files # <<>>
                   /\ call.folder = CategoryFolder(plugins[idx])
                   /\ PluginCategory(plugins[idx]) \in folders
                   /\ call.seeker = seeker
                   /\ call.wrap = wrap_text
       /\ outcome' # outcome =>
             /\ outcome' = Append(outcome, outcome'[idx])
             /\ IF HasMatches(idx) /\ outcome'[idx].how # "mkdir_failed"
                THEN Cardinality({n \in DOMAIN invoked' : invoked'[n].i = idx}) = 1
                ELSE {n \in DOMAIN invoked' : invoked'[n].i = idx} = {}
       /\ seeker # NoSeeker => (seeker' = seeker /\ wrap_text' = wrap_text)]_vars

\* a finished pass: one plugin got the matches of two patterns, three
\* locations, and one plugin with matches was skipped for want of its folder
C13_Witness ==
    /\ pc = "done"
    /\ \E n \in DOMAIN invoked : Len(invoked[n].files) = 3
    /\ \E i \in DOMAIN outcome :
          /\ outcome[i] = Outcome("mkdir_failed", "FileNotFoundError", TRUE)
          /\ HasMatches(i)
    /\ Len(invoked) = 2

\* main has parsed and validated its command line
Validated == stdout # <<>> /\ pc \notin {"start", "validate"}

UtilityMode == args.artifact_paths \/ args.create_profile # None

\* the reasons a command line is refused for, each with its message
Causes(a) ==
    {c \in {"No INPUT_PATH provided", "No OUTPUT_PATH provided", "No T provided",
            "INPUT file/folder does not exist", "OUTPUT folder does not exist",
            "DLEAPP Profile file not found"} :
        CASE c = "No INPUT_PATH provided" -> a.input_path = None
          [] c = "No OUTPUT_PATH provided" -> a.output_path = None
          [] c = "No T provided" -> a.t = NoneT
          [] c = "INPUT file/folder does not exist" ->
                a.input_path # None /\ ~PathExists(a.input_path)
          [] c = "OUTPUT folder does not exist" ->
                a.output_path # None /\ ~PathExists(a.output_path)
          [] OTHER -> a.load_profile # None /\ ~PathExists(a.load_profile)}

\* C14: outside the two utility modes, a command line with a missing input
\* path, output path or container type, an input or output path that does not
\* exist, or a profile path that does not exist, stops main with the message
\* of one of its causes, before the profile is read, the Seeker is built or a
\* plugin runs; a command line without any of these is not refused.
C14_FatalValidation ==
    (Validated /\ ~UtilityMode) =>
        IF Causes(args) # {}
        THEN /\ pc = "exit"
             /\ stdout[Len(stdout)] \in Causes(args)
             /\ Len(stdout) = 2
             /\ profile = NoProfile
             /\ profile_filename = None
             /\ ~PassStarted
             /\ seeker = NoSeeker
             /\ plugins = <<>>
             /\ invoked = <<>>
             /\ report_calls = <<>>
        ELSE pc # "exit"

\* the profile path is the only thing wrong, and main has stopped on it
C14_Witness ==
    /\ pc = "exit"
    /\ Causes(args) = {"DLEAPP Profile file not found"}
    /\ stdout[Len(stdout)] = "DLEAPP Profile file not found"
    /\ Len(available_plugins) = 3

\* crunch_artifacts has returned, or has been left by an exception
PassOver == PassStarted /\ pc \in {"done", "raised"}

\* C15: when crunch_artifacts is over, by Finalize, by the failure of the
\* Seeker or by an escaping error, nothing the Seeker copied to its temp
\* folder is still held.
C15_ScratchReleased == PassOver => staged = {}

\* the k-th pattern plugin p declares
DeclaredPattern(p, k) == IF SearchIsSequence(p) THEN PluginSearch(p)[k] ELSE PluginSearch(p)

\* entry n of the processed-files log comes before entry m in (plugin order,
\* pattern order)
EntryBefore(n, m) ==
    \/ log[n].i < log[m].i
    \/ log[n].i = log[m].i /\ log[n].k < log[m].k

\* the log and the calls are in (plugin order, pattern order), and the entry
\* of pattern k of plugin i is about the k-th pattern the plugin declares
InListOrder ==
    /\ \A n, m \in DOMAIN log : n < m => EntryBefore(n, m)
    /\ \A n \in DOMAIN log :
          log[n].kind \in {"nofile", "found"} =>
              log[n].regex = DeclaredPattern(plugins[log[n].i], log[n].k)
    /\ \A n, m \in DOMAIN invoked : n < m => invoked[n].i < invoked[m].i
    /\ \A n \in DOMAIN invoked : invoked[n].i <= idx

\* C16: the loop takes the plugins in list order and never goes back; a
\* pattern of a plugin is searched only when every earlier plugin is finished
\* and this plugin has not been invoked; a plugin is invoked only when all its
\* patterns have been searched; the log is in (plugin order, pattern order).
C16_SequentialOrder ==
    [][/\ idx' \in {idx, idx + 1}
       /\ idx' = idx + 1 => (Len(outcome) = idx /\ pat' = 0)
       /\ Len(log') > Len(log) /\ idx' = idx /\ idx > 0 =>
             /\ Len(outcome) = idx - 1
             /\ Invocations(idx) = {}
             /\ pat' = pat + 1
             /\ log'[Len(log')].i = idx
             /\ log'[Len(log')].k = pat'
       /\ Len(invoked') > Len(invoked) =>
             /\ Searched(idx)
             /\ Len(outcome) = idx - 1
             /\ invoked'[Len(invoked')].i = idx
       /\ Len(outcome') > Len(outcome) => Len(outcome') = idx
       /\ InListOrder']_vars

\* a finished pass over B, D and C, all three invoked, five patterns searched
C16_Witness ==
    /\ pc = "done"
    /\ plugins = <<2, 4, 3>>
    /\ Len(invoked) = 3
    /\ Len(log) = 9
    /\ log[3].regex = "*/f1.log"
    /\ log[4].regex = "*.log"

\* the step is the handling of 'q' by the loop of create_profile
QuitStep == pc = "cp_menu" /\ user_input'.choice = "q"

\* C17: on 'q' with parsers selected create_profile writes one file holding
\* leapp = "dleapp", format_version = 1 and the names of the selected parsers,
\* each once, which the profile block of main accepts; on 'q' with nothing
\* selected it writes nothing; both end the loop; no other step writes a
\* profile file.
C17_ProfileSavedOrNothing ==
    [][/\ QuitStep =>
             /\ pc' = "returned"
             /\ IF parsers_in_profile = <<>>
                THEN profile_file' = NoFile
                ELSE LET doc == profile_file'.content
                     IN /\ profile_file'.folder = args.create_profile
                        /\ profile_file'.suffix = ".dlprofile"
                        /\ profile_file'.name # ""
                        /\ doc.t = "dict"
                        /\ doc.leapp = Dleapp
                        /\ doc.format_version = JNum(1)
                        /\ doc.plugins.t = "arr"
                        /\ Len(doc.plugins.items) = Len(parsers_in_profile)
                        /\ \A i \in DOMAIN doc.plugins.items :
                              /\ doc.plugins.items[i].t = "str"
                              /\ doc.plugins.items[i].s = parsers_in_profile[i][2][2]
                              /\ \A j \in DOMAIN doc.plugins.items :
                                    doc.plugins.items[i].s = doc.plugins.items[j].s => i = j
                        /\ {doc.plugins.items[i].s : i \in DOMAIN doc.plugins.items}
                              = {PluginName(q) : q \in SelectedPlugins}
                        /\ WellFormedProfile(doc)
                        /\ ProfileLoadError(doc) = "ok"
                        /\ ~PluginsSetRaises(doc.plugins)
       /\ profile_file' # profile_file =>
             (QuitStep /\ parsers_in_profile # <<>> /\ profile_file = NoFile)
       /\ (second_run'.ran => second_run'.error = "ok")]_vars

\* all three parsers of the registry were selected and the profile is written
C17_Witness ==
    /\ pc = "returned"
    /\ user_input.choice = "q"
    /\ profile_file # NoFile
    /\ Len(profile_file.content.plugins.items) = 3
    /\ second_run = NoRun

\* the number a token stands for once the blanks around it are gone, 0 when
\* it is not a whole number without a sign
NumberOf(tok) ==
    CASE tok \in {"1", " 1", "01"} -> 1
      [] tok \in {"2", "2 "} -> 2
      [] tok = "3" -> 3
      [] tok = "4" -> 4
      [] tok = "9" -> 9
      [] OTHER -> 0

\* how many of the tokens stand for the number n
Occurrences(tokens, n) == Cardinality({i \in DOMAIN tokens : NumberOf(tokens[i]) = n})

\* C18: in the 'a' command a token that stands for a number n between 1 and
\* the number of parsers toggles parser n, so that a number entered twice
\* leaves it as it was, and every other token changes nothing; 'l', 'p' and
\* invalid answers change nothing; after each of them the selection is still
\* there and the dialogue goes on.
C18_SelectionToggling ==
    [][pc = "cp_menu" =>
          /\ user_input'.choice \in {"l", "p", "invalid"} =>
                (parsers_in_profile' = parsers_in_profile /\ pc' = "cp_menu")
          /\ user_input'.choice = "a" =>
                /\ pc' = "cp_menu"
                /\ \A n \in 1..Len(available_parsers) :
                      (n \in Numbers(parsers_in_profile'))
                         = IF Occurrences(user_input'.numbers, n) % 2 = 1
                           THEN n \notin Numbers(parsers_in_profile)
                           ELSE n \in Numbers(parsers_in_profile)
                /\ Numbers(parsers_in_profile') \subseteq 1..Len(available_parsers)
                /\ \A i \in DOMAIN parsers_in_profile' :
                      parsers_in_profile'[i][2]
                         = available_parsers[parsers_in_profile'[i][1]]]_vars

\* C19: a run with the artifact-paths or the create-profile option is not
\* refused by the validation, whatever else is missing, and loads no profile,
\* builds no Seeker, calls no parse routine and no report generator; with
\* both options only the path list is written and the dialogue of
\* create_profile is not entered; create-profile with a path that is not a
\* folder starts no dialogue and writes no profile.
C19_UtilityModesNeverDispatch ==
    /\ (Validated /\ UtilityMode) =>
          /\ pc \in {"validated", "cp_menu", "returned", "crashed", "reloaded"}
          /\ \A n \in DOMAIN stdout : stdout[n] \notin Causes(args)
          /\ profile = NoProfile
          /\ profile_filename = None
          /\ selected_plugins = available_plugins
          /\ ~PassStarted
          /\ seeker = NoSeeker
          /\ plugins = <<>>
          /\ log = <<>>
          /\ invoked = <<>>
          /\ report_calls = <<>>
          /\ result = "none"
          /\ args.artifact_paths =>
                /\ pc \in {"validated", "returned"}
                /\ user_input = NoInput
                /\ available_parsers = <<>>
                /\ profile_file = NoFile
                /\ pc = "returned" => path_list = AllPathLines(available_plugins)
          /\ (~args.artifact_paths /\ args.create_profile \notin Folders) =>
                /\ pc \in {"validated", "returned"}
                /\ user_input = NoInput
                /\ profile_file = NoFile
                /\ pc = "returned" =>
                      stdout[Len(stdout)] =
                          "OUTPUT folder for storing DLEAPP Profile file does not exist!"
          /\ ~args.artifact_paths => path_list = <<>>
    /\ (path_list # <<>> \/ user_input # NoInput \/ profile_file # NoFile) => UtilityMode

\* both options given and nothing else: the path list of three plugins is
\* written and main has returned
C19_Witness ==
    /\ pc = "returned"
    /\ args.artifact_paths
    /\ args.create_profile = OutputDir
    /\ args.input_path = None
    /\ Len(available_plugins) = 3
    /\ Len(path_list) >= 4

====
